---- MODULE Spec2Model ----
(***************************************************************************)
(* Model of the DataNexus client-side instruction builders.                *)
(*                                                                         *)
(* Three revisions of the five builders are in the repository:             *)
(*   "src"    src/js/src/instruction.ts          (hash: one Uint8Array)     *)
(*   "stub"   src/js/instruction.ts, lines 1-85  (three empty bodies)       *)
(*   "concat" src/js/instruction.ts, lines 87-216 (hash: array of buffers)  *)
(* Every builder is an async function without an await: its body runs to   *)
(* completion when it is called and the promise it returns is settled by   *)
(* then.  One action models one call of one builder by one caller.         *)
(***************************************************************************)
EXTENDS Integers, Sequences, FiniteSets, TLC

VARIABLES frame

vars == <<frame>>

(***************************************************************************)
(* Bounds of the model.                                                    *)
(***************************************************************************)
\* number of distinct account-identifier assignments a caller may supply
NumKeyVectors == 2
\* longest Params byte blob a caller may supply
MaxParamsLen == 1
\* where a caller of the "concat" revision may cut the hash into two segments
SplitAt == 16
\* how far a supplied hash may miss the 32-byte length, either way
MaxLenSlack == 1

(***************************************************************************)
(* Program constants.                                                      *)
(***************************************************************************)
OWNER == 0
ACCESS == 1
AccountType == {OWNER, ACCESS}

\* length of a content hash; the builders never state it, the wire format does
HashLen == 32

\* The callers that may have a call's outcome in hand at the same time.
Callers == {"c1", "c2"}

(***************************************************************************)
(* JavaScript values and library calls the builders use.                   *)
(***************************************************************************)
Uint8Array(bytes) == [type |-> "Uint8Array", bytes |-> bytes]
Number(n) == [type |-> "number", n |-> n]
ArrayOf(items) == [type |-> "Array", items |-> items]

Normal(v) == [type |-> "normal", value |-> v]
Throw(name) == [type |-> "throw", value |-> name]

\* ToUint8 conversion applied to every element stored in a Uint8Array
ToUint8(n) == n % 256

\* Uint8Array.of(...items)
Uint8ArrayOf(items) == Uint8Array([i \in 1..Len(items) |-> ToUint8(items[i])])

\* Buffer.from(typedArray): a Buffer holding a copy of the array's bytes
BufferFrom(arr) == [type |-> "Buffer", bytes |-> [i \in 1..Len(arr.bytes) |-> arr.bytes[i]]]

\* the spread  ...v  inside an argument list: the elements v iterates over,
\* a TypeError when v is not iterable
Spread(v) ==
  CASE v.type = "Uint8Array" -> Normal(v.bytes)
    [] v.type = "Buffer" -> Normal(v.bytes)
    [] v.type = "Array" -> Normal(v.items)
    [] OTHER -> Throw("TypeError")

RECURSIVE ConcatBytes(_)
ConcatBytes(list) ==
  IF list = <<>> THEN <<>> ELSE Head(list).bytes \o ConcatBytes(Tail(list))

\* Buffer.concat(list): one Buffer with the bytes of the list's members in order
BufferConcat(list) == [type |-> "Buffer", bytes |-> ConcatBytes(list)]

\* the module scope binds one name the builders read without declaring it
DATANEXUS_PROGRAM_ID == 1000
GlobalScope == [DATANEXUS_PROGRAM_ID |-> DATANEXUS_PROGRAM_ID]

\* evaluation of an identifier: the function's own bindings, then the global
\* scope, else a ReferenceError
Lookup(locals, name) ==
  IF name \in DOMAIN locals THEN Normal(locals[name])
  ELSE IF name \in DOMAIN GlobalScope THEN Normal(GlobalScope[name])
  ELSE Throw("ReferenceError")

\* new PublicKey(value)
PublicKey(value) == value

AccountMeta(pubkey, isSigner, isWritable) ==
  [pubkey |-> pubkey, isSigner |-> isSigner, isWritable |-> isWritable]

\* new TransactionInstruction({programId, keys, data}): the fields as given
TransactionInstruction(programId, keys, data) ==
  [programId |-> programId, keys |-> keys, data |-> data]

(***************************************************************************)
(* Outcome of one call: the account list and the payload the body got to   *)
(* evaluate and how the returned promise settled.                          *)
(***************************************************************************)
NotEvaluated == [type |-> "none"]

Fulfilled(ix) == [state |-> "fulfilled", kind |-> "instruction", value |-> ix]
FulfilledUndefined == [state |-> "fulfilled", kind |-> "undefined"]
Rejected(name) == [state |-> "rejected", kind |-> name]

\* keys and data are completions; the first abrupt one rejects the promise
Outcome(keys, data) ==
  [keys |-> keys,
   data |-> IF keys.type = "throw" THEN NotEvaluated ELSE data,
   ret |-> IF keys.type = "throw" THEN Rejected(keys.value)
           ELSE IF data.type = "throw" THEN Rejected(data.value)
           ELSE Fulfilled(TransactionInstruction(PublicKey(DATANEXUS_PROGRAM_ID),
                                                 keys.value, data.value))]

\* an async function whose body is empty
EmptyBody == [keys |-> NotEvaluated, data |-> NotEvaluated, ret |-> FulfilledUndefined]

(***************************************************************************)
(* Revision "src": src/js/src/instruction.ts                               *)
(***************************************************************************)
initUserAccountIx_src(payer, authority, userAccount, systemProgram, accountType) ==
  Outcome(Normal(<<AccountMeta(payer, TRUE, TRUE),
                   AccountMeta(authority, FALSE, TRUE),
                   AccountMeta(userAccount, FALSE, TRUE),
                   AccountMeta(systemProgram, FALSE, FALSE)>>),
          Normal(BufferFrom(Uint8ArrayOf(<<0, accountType>>))))

\* variant: the opcode written after the hash instead of before it
initDataAccountIx_src_opcodeLast(authority, ownerAccount, datasetAccount, systemProgram, hash) ==
  Outcome(Normal(<<AccountMeta(authority, TRUE, TRUE),
                   AccountMeta(ownerAccount, FALSE, TRUE),
                   AccountMeta(datasetAccount, FALSE, TRUE),
                   AccountMeta(systemProgram, FALSE, FALSE)>>),
          LET h == Spread(hash) IN
          IF h.type = "throw" THEN h
          ELSE Normal(BufferFrom(Uint8ArrayOf(h.value \o <<1>>))))

initDataAccountIx_src(authority, ownerAccount, datasetAccount, systemProgram, hash) ==
  Outcome(Normal(<<AccountMeta(authority, TRUE, TRUE),
                   AccountMeta(ownerAccount, FALSE, TRUE),
                   AccountMeta(datasetAccount, FALSE, TRUE),
                   AccountMeta(systemProgram, FALSE, FALSE)>>),
          LET h == Spread(hash) IN
          IF h.type = "throw" THEN h
          ELSE Normal(BufferFrom(Uint8ArrayOf(<<1>> \o h.value))))

\* the second parameter is declared dataSetAccount; the account list reads
\* datasetAccount
setDataParams_src(authority, dataSetAccount, hash, params) ==
  LET locals == [authority |-> authority, dataSetAccount |-> dataSetAccount,
                 hash |-> hash, params |-> params]
      acc == Lookup(locals, "datasetAccount")
  IN Outcome(IF acc.type = "throw" THEN acc
             ELSE Normal(<<AccountMeta(authority, TRUE, TRUE),
                           AccountMeta(acc.value, FALSE, TRUE)>>),
             LET h == Spread(hash) IN
             IF h.type = "throw" THEN h
             ELSE Normal(BufferFrom(Uint8ArrayOf(<<2>> \o h.value))))

purchaseAccess_src(userAuthority, userAccessAccount, userTokenAccount, ownerAuthority, ownerTokenAccount, datasetAccount, tokenProgram, hash, amount) ==
  Outcome(Normal(<<AccountMeta(userAuthority, TRUE, TRUE),
                   AccountMeta(userAccessAccount, FALSE, TRUE),
                   AccountMeta(userTokenAccount, FALSE, TRUE),
                   AccountMeta(ownerAuthority, FALSE, TRUE),
                   AccountMeta(ownerTokenAccount, FALSE, TRUE),
                   AccountMeta(datasetAccount, FALSE, FALSE),
                   AccountMeta(tokenProgram, FALSE, FALSE)>>),
          LET h == Spread(hash)
              a == Spread(amount)
          IN IF h.type = "throw" THEN h
             ELSE IF a.type = "throw" THEN a
             ELSE Normal(BufferFrom(Uint8ArrayOf(<<3>> \o h.value \o a.value))))

\* variant: the hash written with a length prefix
shareAccess_src_lengthPrefixed(userAuthority, userAccessAccount, recipientAuthority, recipientAccessAccount, datasetAccount, hash) ==
  Outcome(Normal(<<AccountMeta(userAuthority, TRUE, TRUE),
                   AccountMeta(userAccessAccount, FALSE, TRUE),
                   AccountMeta(recipientAuthority, FALSE, TRUE),
                   AccountMeta(recipientAccessAccount, FALSE, TRUE),
                   AccountMeta(datasetAccount, FALSE, FALSE)>>),
          LET h == Spread(hash) IN
          IF h.type = "throw" THEN h
          ELSE Normal(BufferFrom(Uint8ArrayOf(<<4, Len(h.value)>> \o h.value))))

shareAccess_src(userAuthority, userAccessAccount, recipientAuthority, recipientAccessAccount, datasetAccount, hash) ==
  Outcome(Normal(<<AccountMeta(userAuthority, TRUE, TRUE),
                   AccountMeta(userAccessAccount, FALSE, TRUE),
                   AccountMeta(recipientAuthority, FALSE, TRUE),
                   AccountMeta(recipientAccessAccount, FALSE, TRUE),
                   AccountMeta(datasetAccount, FALSE, FALSE)>>),
          LET h == Spread(hash) IN
          IF h.type = "throw" THEN h
          ELSE Normal(BufferFrom(Uint8ArrayOf(<<4>> \o h.value))))

(***************************************************************************)
(* Revision "stub": src/js/instruction.ts, lines 1-85.  The first two      *)
(* builders are those of "src"; the other three have empty bodies.         *)
(***************************************************************************)
initUserAccountIx_stub(payer, authority, userAccount, systemProgram, accountType) ==
  Outcome(Normal(<<AccountMeta(payer, TRUE, TRUE),
                   AccountMeta(authority, FALSE, TRUE),
                   AccountMeta(userAccount, FALSE, TRUE),
                   AccountMeta(systemProgram, FALSE, FALSE)>>),
          Normal(BufferFrom(Uint8ArrayOf(<<0, accountType>>))))

initDataAccountIx_stub(authority, ownerAccount, datasetAccount, systemProgram, hash) ==
  Outcome(Normal(<<AccountMeta(authority, TRUE, TRUE),
                   AccountMeta(ownerAccount, FALSE, TRUE),
                   AccountMeta(datasetAccount, FALSE, TRUE),
                   AccountMeta(systemProgram, FALSE, FALSE)>>),
          LET h == Spread(hash) IN
          IF h.type = "throw" THEN h
          ELSE Normal(BufferFrom(Uint8ArrayOf(<<1>> \o h.value))))

setDataParams_stub(authority, dataSetAccount, hash, params) == EmptyBody

purchaseAccess_stub(userAuthority, userAccessAccount, userTokenAccount, ownerAuthority, ownerTokenAccount, datasetAccount, tokenProgram, hash, amount) == EmptyBody

shareAccess_stub(userAuthority, userAccessAccount, recipientAuthority, recipientAccessAccount, datasetAccount, hash) == EmptyBody

(***************************************************************************)
(* Revision "concat": src/js/instruction.ts, lines 87-216.  The hash is an *)
(* array of buffers and the payload is assembled with Buffer.concat.       *)
(***************************************************************************)
RECURSIVE LittleEndian(_, _)
LittleEndian(n, width) ==
  IF width = 0 THEN <<>> ELSE <<n % 256>> \o LittleEndian(n \div 256, width - 1)

\* Numberu64 and its toBuffer(): the amount as 8 bytes, little-endian
Numberu64(n) == [type |-> "Numberu64", n |-> n]
toBuffer(amount) == [type |-> "Buffer", bytes |-> LittleEndian(amount.n, 8)]

initUserAccountIx_concat(payer, authority, userAccount, systemProgram, accountType) ==
  Outcome(Normal(<<AccountMeta(payer, TRUE, TRUE),
                   AccountMeta(authority, FALSE, TRUE),
                   AccountMeta(userAccount, FALSE, TRUE),
                   AccountMeta(systemProgram, FALSE, FALSE)>>),
          Normal(BufferFrom(Uint8ArrayOf(<<0, accountType>>))))

initDataAccountIx_concat(authority, ownerAccount, datasetAccount, systemProgram, hash) ==
  LET buffers == <<BufferFrom(Uint8ArrayOf(<<1>>)), BufferConcat(hash.items)>>
  IN Outcome(Normal(<<AccountMeta(authority, TRUE, TRUE),
                      AccountMeta(ownerAccount, FALSE, TRUE),
                      AccountMeta(datasetAccount, FALSE, TRUE),
                      AccountMeta(systemProgram, FALSE, FALSE)>>),
             Normal(BufferConcat(buffers)))

setDataParams_concat(authority, datasetAccount, hash, params) ==
  LET buffers == <<BufferFrom(Uint8ArrayOf(<<2>>)), BufferConcat(hash.items)>>
  IN Outcome(Normal(<<AccountMeta(authority, TRUE, TRUE),
                      AccountMeta(datasetAccount, FALSE, TRUE)>>),
             Normal(BufferConcat(buffers)))

\* data is the array of the three buffers itself, not their concatenation
purchaseAccess_concat(userAuthority, userAccessAccount, userTokenAccount, ownerAuthority, ownerTokenAccount, datasetAccount, tokenProgram, hash, amount) ==
  LET buffers == <<BufferFrom(Uint8ArrayOf(<<3>>)), BufferConcat(hash.items),
                   toBuffer(amount)>>
  IN Outcome(Normal(<<AccountMeta(userAuthority, TRUE, TRUE),
                      AccountMeta(userAccessAccount, FALSE, TRUE),
                      AccountMeta(userTokenAccount, FALSE, TRUE),
                      AccountMeta(ownerAuthority, FALSE, TRUE),
                      AccountMeta(ownerTokenAccount, FALSE, TRUE),
                      AccountMeta(datasetAccount, FALSE, FALSE),
                      AccountMeta(tokenProgram, FALSE, FALSE)>>),
             Normal(ArrayOf(buffers)))

shareAccess_concat(userAuthority, userAccessAccount, recipientAuthority, recipientAccessAccount, datasetAccount, hash) ==
  LET buffers == <<BufferFrom(Uint8ArrayOf(<<4>>)), BufferConcat(hash.items)>>
  IN Outcome(Normal(<<AccountMeta(userAuthority, TRUE, TRUE),
                      AccountMeta(userAccessAccount, FALSE, TRUE),
                      AccountMeta(recipientAuthority, FALSE, TRUE),
                      AccountMeta(recipientAccessAccount, FALSE, TRUE),
                      AccountMeta(datasetAccount, FALSE, FALSE)>>),
             Normal(BufferConcat(buffers)))

(***************************************************************************)
(* What callers may supply.                                                *)
(***************************************************************************)
\* one account identifier per role, all distinct within an assignment
KeyVector(s) == [i \in 1..7 |-> 10 * s + i]
KeyVectors == {KeyVector(s) : s \in 1..NumKeyVectors}

HashBytes(len, start) == [i \in 1..len |-> (start + i - 1) % 256]
HashLengths == (HashLen - MaxLenSlack)..(HashLen + MaxLenSlack)
\* byte strings offered as a hash: of the right length and not
ByteStrings == {HashBytes(HashLen, 224)} \cup {HashBytes(l, 0) : l \in HashLengths}

\* the same bytes as one segment or cut in two
Segmentations(b) ==
  LET k == IF SplitAt < Len(b) THEN SplitAt ELSE Len(b)
  IN {<<Uint8Array(b)>>,
      <<Uint8Array(SubSeq(b, 1, k)), Uint8Array(SubSeq(b, k + 1, Len(b)))>>}

HashBuffers == {Uint8Array(b) : b \in ByteStrings}
HashArrays == {ArrayOf(segs) : segs \in UNION {Segmentations(b) : b \in ByteStrings}}

\* Params as the pre-serialized bytes the caller holds
ParamsBlobs == {[i \in 1..n |-> 6 + i] : n \in 0..MaxParamsLen}

Amounts == {1, 258}

(***************************************************************************)
(* State: per caller, the last call made and its outcome.                  *)
(***************************************************************************)
Idle == [rev |-> "none", op |-> "none"]

Call(rev, op, accounts, args, outcome) ==
  [rev |-> rev, op |-> op, accounts |-> accounts, args |-> args,
   keys |-> outcome.keys, data |-> outcome.data, ret |-> outcome.ret]

Init == frame = [c \in Callers |-> Idle]

InitUserAccountIxSrc ==
  \E c \in Callers, k \in KeyVectors, t \in AccountType :
    /\ frame[c] = Idle
    /\ frame' = [frame EXCEPT ![c] =
         Call("src", "InitUserAccount", SubSeq(k, 1, 4), [accountType |-> t],
              initUserAccountIx_src(k[1], k[2], k[3], k[4], t))]

InitDataAccountIxSrc ==
  \E c \in Callers, k \in KeyVectors, h \in HashBuffers :
    /\ frame[c] = Idle
    /\ frame' = [frame EXCEPT ![c] =
         Call("src", "InitDataAccount", SubSeq(k, 1, 4), [hash |-> h],
              initDataAccountIx_src(k[1], k[2], k[3], k[4], h))]

SetDataParamsSrc ==
  \E c \in Callers, k \in KeyVectors, h \in HashBuffers, p \in ParamsBlobs :
    /\ frame[c] = Idle
    /\ frame' = [frame EXCEPT ![c] =
         Call("src", "SetDataParams", SubSeq(k, 1, 2), [hash |-> h, params |-> p],
              setDataParams_src(k[1], k[2], h, p))]

PurchaseAccessSrc ==
  \E c \in Callers, k \in KeyVectors, h \in HashBuffers, a \in Amounts :
    /\ frame[c] = Idle
    /\ frame' = [frame EXCEPT ![c] =
         Call("src", "PurchaseAccess", SubSeq(k, 1, 7), [hash |-> h, amount |-> a],
              purchaseAccess_src(k[1], k[2], k[3], k[4], k[5], k[6], k[7], h, Number(a)))]

ShareAccessSrc ==
  \E c \in Callers, k \in KeyVectors, h \in HashBuffers :
    /\ frame[c] = Idle
    /\ frame' = [frame EXCEPT ![c] =
         Call("src", "ShareAccess", SubSeq(k, 1, 5), [hash |-> h],
              shareAccess_src(k[1], k[2], k[3], k[4], k[5], h))]

InitUserAccountIxStub ==
  \E c \in Callers, k \in KeyVectors, t \in AccountType :
    /\ frame[c] = Idle
    /\ frame' = [frame EXCEPT ![c] =
         Call("stub", "InitUserAccount", SubSeq(k, 1, 4), [accountType |-> t],
              initUserAccountIx_stub(k[1], k[2], k[3], k[4], t))]

InitDataAccountIxStub ==
  \E c \in Callers, k \in KeyVectors, h \in HashBuffers :
    /\ frame[c] = Idle
    /\ frame' = [frame EXCEPT ![c] =
         Call("stub", "InitDataAccount", SubSeq(k, 1, 4), [hash |-> h],
              initDataAccountIx_stub(k[1], k[2], k[3], k[4], h))]

SetDataParamsStub ==
  \E c \in Callers, k \in KeyVectors, h \in HashBuffers, p \in ParamsBlobs :
    /\ frame[c] = Idle
    /\ frame' = [frame EXCEPT ![c] =
         Call("stub", "SetDataParams", SubSeq(k, 1, 2), [hash |-> h, params |-> p],
              setDataParams_stub(k[1], k[2], h, p))]

PurchaseAccessStub ==
  \E c \in Callers, k \in KeyVectors, h \in HashBuffers, a \in Amounts :
    /\ frame[c] = Idle
    /\ frame' = [frame EXCEPT ![c] =
         Call("stub", "PurchaseAccess", SubSeq(k, 1, 7), [hash |-> h, amount |-> a],
              purchaseAccess_stub(k[1], k[2], k[3], k[4], k[5], k[6], k[7], h, Number(a)))]

ShareAccessStub ==
  \E c \in Callers, k \in KeyVectors, h \in HashBuffers :
    /\ frame[c] = Idle
    /\ frame' = [frame EXCEPT ![c] =
         Call("stub", "ShareAccess", SubSeq(k, 1, 5), [hash |-> h],
              shareAccess_stub(k[1], k[2], k[3], k[4], k[5], h))]

InitUserAccountIxConcat ==
  \E c \in Callers, k \in KeyVectors, t \in AccountType :
    /\ frame[c] = Idle
    /\ frame' = [frame EXCEPT ![c] =
         Call("concat", "InitUserAccount", SubSeq(k, 1, 4), [accountType |-> t],
              initUserAccountIx_concat(k[1], k[2], k[3], k[4], t))]

InitDataAccountIxConcat ==
  \E c \in Callers, k \in KeyVectors, h \in HashArrays :
    /\ frame[c] = Idle
    /\ frame' = [frame EXCEPT ![c] =
         Call("concat", "InitDataAccount", SubSeq(k, 1, 4), [hash |-> h],
              initDataAccountIx_concat(k[1], k[2], k[3], k[4], h))]

SetDataParamsConcat ==
  \E c \in Callers, k \in KeyVectors, h \in HashArrays, p \in ParamsBlobs :
    /\ frame[c] = Idle
    /\ frame' = [frame EXCEPT ![c] =
         Call("concat", "SetDataParams", SubSeq(k, 1, 2), [hash |-> h, params |-> p],
              setDataParams_concat(k[1], k[2], h, p))]

PurchaseAccessConcat ==
  \E c \in Callers, k \in KeyVectors, h \in HashArrays, a \in Amounts :
    /\ frame[c] = Idle
    /\ frame' = [frame EXCEPT ![c] =
         Call("concat", "PurchaseAccess", SubSeq(k, 1, 7), [hash |-> h, amount |-> a],
              purchaseAccess_concat(k[1], k[2], k[3], k[4], k[5], k[6], k[7], h, Numberu64(a)))]

ShareAccessConcat ==
  \E c \in Callers, k \in KeyVectors, h \in HashArrays :
    /\ frame[c] = Idle
    /\ frame' = [frame EXCEPT ![c] =
         Call("concat", "ShareAccess", SubSeq(k, 1, 5), [hash |-> h],
              shareAccess_concat(k[1], k[2], k[3], k[4], k[5], h))]

\* the caller's continuation takes the settled promise; the caller may call again
Await ==
  \E c \in Callers :
    /\ frame[c] # Idle
    /\ frame' = [frame EXCEPT ![c] = Idle]

Next ==
  \/ InitUserAccountIxSrc
  \/ InitDataAccountIxSrc
  \/ SetDataParamsSrc
  \/ PurchaseAccessSrc
  \/ ShareAccessSrc
  \/ InitUserAccountIxStub
  \/ InitDataAccountIxStub
  \/ SetDataParamsStub
  \/ PurchaseAccessStub
  \/ ShareAccessStub
  \/ InitUserAccountIxConcat
  \/ InitDataAccountIxConcat
  \/ SetDataParamsConcat
  \/ PurchaseAccessConcat
  \/ ShareAccessConcat
  \/ Await

Spec == Init /\ [][Next]_vars

(***************************************************************************)
(* Vocabulary of the properties.                                           *)
(***************************************************************************)
Done(c) == frame[c] # Idle
Returned(c) == Done(c) /\ frame[c].ret.kind = "instruction"
HashOps == {"InitDataAccount", "SetDataParams", "PurchaseAccess", "ShareAccess"}

Opcode(op) ==
  CASE op = "InitUserAccount" -> 0
    [] op = "InitDataAccount" -> 1
    [] op = "SetDataParams" -> 2
    [] op = "PurchaseAccess" -> 3
    [] op = "ShareAccess" -> 4

\* signer and writable flag of every role, in the order of the account table
RoleFlags(op) ==
  CASE op = "InitUserAccount" ->
         <<<<TRUE, TRUE>>, <<FALSE, TRUE>>, <<FALSE, TRUE>>, <<FALSE, FALSE>>>>
    [] op = "InitDataAccount" ->
         <<<<TRUE, TRUE>>, <<FALSE, TRUE>>, <<FALSE, TRUE>>, <<FALSE, FALSE>>>>
    [] op = "SetDataParams" ->
         <<<<TRUE, TRUE>>, <<FALSE, TRUE>>>>
    [] op = "PurchaseAccess" ->
         <<<<TRUE, TRUE>>, <<FALSE, TRUE>>, <<FALSE, TRUE>>, <<FALSE, TRUE>>,
           <<FALSE, TRUE>>, <<FALSE, FALSE>>, <<FALSE, FALSE>>>>
    [] op = "ShareAccess" ->
         <<<<TRUE, TRUE>>, <<FALSE, TRUE>>, <<FALSE, TRUE>>, <<FALSE, TRUE>>,
           <<FALSE, FALSE>>>>

\* the account table applied to the identifiers the caller supplied
TableList(op, accounts) ==
  [i \in 1..Len(RoleFlags(op)) |->
     [pubkey |-> accounts[i], isSigner |-> RoleFlags(op)[i][1],
      isWritable |-> RoleFlags(op)[i][2]]]

RECURSIVE Joined(_)
Joined(segs) == IF segs = <<>> THEN <<>> ELSE segs[1].bytes \o Joined(Tail(segs))

\* the hash bytes a call was given, whatever the revision's way of passing them
SuppliedHash(f) ==
  IF f.rev = "concat" THEN Joined(f.args.hash.items) ELSE f.args.hash.bytes

ValidInput(f) == f.op \in HashOps => Len(SuppliedHash(f)) = HashLen

\* the payload is one byte buffer with exactly these bytes
IsBytes(data, bytes) == data.type = "Buffer" /\ data.bytes = bytes

(***************************************************************************)
(* C1: in the two revisions whose builders all have a body, every call on  *)
(* valid input builds the account list of the table: same length, same     *)
(* order of roles, same flags, each position holding the identifier        *)
(* supplied for the role.                                                  *)
(***************************************************************************)
C1_AccountOrder ==
  \A c \in Callers :
    (Done(c) /\ frame[c].rev \in {"src", "concat"} /\ ValidInput(frame[c])) =>
      /\ frame[c].keys.type = "normal"
      /\ frame[c].keys.value = TableList(frame[c].op, frame[c].accounts)

(***************************************************************************)
(* C2: on valid input, byte 0 of the payload of every returned record is   *)
(* the opcode of the operation.                                            *)
(***************************************************************************)
C2_OpcodeByte ==
  \A c \in Callers :
    (Returned(c) /\ ValidInput(frame[c])) =>
      LET data == frame[c].ret.value.data IN
      /\ data.type = "Buffer"
      /\ Len(data.bytes) >= 1
      /\ data.bytes[1] = Opcode(frame[c].op)

(***************************************************************************)
(* C3: InitUserAccount returns the payload [0, tag]; InitDataAccount and   *)
(* ShareAccess, given a 32-byte hash, return the 33 bytes opcode, hash.    *)
(* Stated of every builder of the three operations that has a body.        *)
(***************************************************************************)
C3_FixedPayloads ==
  \A c \in Callers :
    LET f == frame[c] IN
    /\ (Done(c) /\ f.op = "InitUserAccount") =>
         /\ Returned(c)
         /\ IsBytes(f.ret.value.data, <<0, f.args.accountType>>)
    /\ (Done(c) /\ ValidInput(f)
          /\ \/ f.op = "InitDataAccount"
             \/ f.op = "ShareAccess" /\ f.rev \in {"src", "concat"}) =>
         /\ Returned(c)
         /\ IsBytes(f.ret.value.data, <<Opcode(f.op)>> \o SuppliedHash(f))
         /\ Len(f.ret.value.data.bytes) = 33

\* a ShareAccess call of revision "src" returned for the hash 224..255
C3_Witness ==
  \E c \in Callers :
    /\ Returned(c)
    /\ frame[c].rev = "src"
    /\ frame[c].op = "ShareAccess"
    /\ SuppliedHash(frame[c]) = HashBytes(HashLen, 224)
    /\ frame[c].ret.value.data.bytes[33] = 255

(***************************************************************************)
(* C4: the SetDataParams payload is opcode 2, the hash, then the Params    *)
(* bytes unmodified.                                                       *)
(***************************************************************************)
C4_ParamsAppended ==
  \A c \in Callers :
    (Returned(c) /\ frame[c].op = "SetDataParams" /\ ValidInput(frame[c])) =>
      IsBytes(frame[c].ret.value.data,
              <<2>> \o SuppliedHash(frame[c]) \o frame[c].args.params)

(***************************************************************************)
(* C5: PurchaseAccess, given a 32-byte hash, returns the flat 42 bytes     *)
(* opcode 3, hash, amount as 8 bytes little-endian.  Stated of the two     *)
(* revisions whose PurchaseAccess has a body.                              *)
(***************************************************************************)
C5_AmountLittleEndian ==
  \A c \in Callers :
    LET f == frame[c] IN
    (Done(c) /\ f.op = "PurchaseAccess" /\ f.rev \in {"src", "concat"}
       /\ ValidInput(f)) =>
      /\ Returned(c)
      /\ IsBytes(f.ret.value.data,
                 <<3>> \o SuppliedHash(f) \o LittleEndian(f.args.amount, 8))

(***************************************************************************)
(* C6: on valid input every call of every builder ends by returning an     *)
(* instruction record, never undefined and never an error.                 *)
(***************************************************************************)
C6_AlwaysARecord ==
  \A c \in Callers :
    (Done(c) /\ ValidInput(frame[c])) => Returned(c)

(***************************************************************************)
(* C8: two returned records of the same builder whose calls differ in one  *)
(* payload field (hashes of 32 bytes) have the same account list, and      *)
(* their payloads differ only inside that field's byte range: tag byte 1,  *)
(* hash bytes 1..32, Params or amount from byte 33 on.                     *)
(***************************************************************************)
FieldValue(f, x) == IF x = "hash" THEN SuppliedHash(f) ELSE f.args[x]
ChangedFields(f, g) == {x \in DOMAIN f.args : FieldValue(f, x) # FieldValue(g, x)}

\* 1-based positions of a field's bytes in a payload of the given length
FieldRange(x, len) ==
  CASE x = "accountType" -> {2}
    [] x = "hash" -> 2..(HashLen + 1)
    [] OTHER -> (HashLen + 2)..len

Comparable(c, d) ==
  /\ c # d
  /\ Returned(c) /\ Returned(d)
  /\ frame[c].rev = frame[d].rev
  /\ frame[c].op = frame[d].op
  /\ frame[c].accounts = frame[d].accounts
  /\ ValidInput(frame[c]) /\ ValidInput(frame[d])
  /\ frame[c].ret.value.data.type = "Buffer"
  /\ frame[d].ret.value.data.type = "Buffer"
  /\ Cardinality(ChangedFields(frame[c], frame[d])) = 1

C9_HashLengthEnforced ==
  \A c \in Callers :
    (Returned(c) /\ frame[c].op \in HashOps) =>
      Len(SuppliedHash(frame[c])) = HashLen

(***************************************************************************)
(* C10: a call of revision "src" and a call of revision "concat" of the    *)
(* same operation, given the same accounts, the same hash bytes and the    *)
(* same other arguments, both return records, with the same account list   *)
(* and the same payload bytes.                                             *)
(***************************************************************************)
C10_RevisionsAgree ==
  \A c, d \in Callers :
    (/\ Done(c) /\ Done(d)
     /\ frame[c].rev = "src" /\ frame[d].rev = "concat"
     /\ frame[c].op = frame[d].op
     /\ frame[c].accounts = frame[d].accounts
     /\ ValidInput(frame[c])
     /\ ChangedFields(frame[c], frame[d]) = {}) =>
      /\ Returned(c) /\ Returned(d)
      /\ frame[c].ret.value.keys = frame[d].ret.value.keys
      /\ frame[c].ret.value.data.type = "Buffer"
      /\ frame[d].ret.value.data.type = "Buffer"
      /\ frame[c].ret.value.data.bytes = frame[d].ret.value.data.bytes

====
